---- MODULE Spec2Model ----
(***************************************************************************)
(* Model of libyara/modules/hash.c: the "hash" module of YARA.             *)
(*                                                                         *)
(* The module exposes md5, sha1, sha256 and checksum32 over a range of the *)
(* scanned data (a list of memory blocks) and keeps, per scan, one cached  *)
(* result per algorithm in a CACHE structure hung off the module object.   *)
(*                                                                         *)
(* The digest engines of OpenSSL are external: a context is modelled as    *)
(* the sequence of bytes fed to it, and the final digest as an injective   *)
(* function of that sequence (no collisions inside the bounds).            *)
(***************************************************************************)
EXTENDS Integers, Sequences, FiniteSets, TLC

(***************************************************************************)
(* Bounds of the model.                                                    *)
(***************************************************************************)
MaxAddr == 4        \* the scanned address space is 0 .. MaxAddr-1
MaxBlocks == 3      \* at most this many memory blocks
MaxLength == 3      \* largest length argument tried
MaxCalls == 3       \* calls in one scan that keeps to one function
MaxMixedCalls == 2  \* calls in one scan that uses several functions
MaxStrLen == 2      \* longest literal string argument tried

\* a uint32_t is kept as its two 16-bit halves: value = hi * Half + lo
Half == 65536
Word32(hi, lo) == [hi |-> hi, lo |-> lo]
Zero32 == Word32(0, 0)

VARIABLES
  blocks,   \* context->mem_block list: sequence of [base, size, data]
  loaded,   \* TRUE between module_load and module_unload
  cache,    \* module->data: the CACHE structure (NULL_CACHE when not allocated)
  last,     \* what the last function call did and returned
  ncalls,   \* number of function calls made in this scan
  fns       \* the functions called in this scan

vars == <<blocks, loaded, cache, last, ncalls, fns>>

(***************************************************************************)
(* Scanned data.                                                           *)
(***************************************************************************)
\* the byte stored at logical address a ("abcd...")
Image(a) == 97 + a

MemoryBlock(b, s) ==
  [base |-> b, size |-> s, data |-> [i \in 1..s |-> Image(b + i - 1)]]

\* every non-empty block that fits in the address space
BlockSet ==
  UNION {{MemoryBlock(b, s) : s \in 1..(MaxAddr - b)} : b \in 0..(MaxAddr - 1)}

\* block lists as the scanner supplies them: ascending base, no overlap
BlockLists ==
  {bl \in UNION {[1..n -> BlockSet] : n \in 1..MaxBlocks} :
     \A i \in 1..(Len(bl) - 1) : bl[i].base + bl[i].size <= bl[i + 1].base}

(***************************************************************************)
(* Digest engines (OpenSSL) and digest_to_ascii.                           *)
(***************************************************************************)
HexDigits == <<"0", "1", "2", "3", "4", "5", "6", "7",
               "8", "9", "a", "b", "c", "d", "e", "f">>

\* a byte that tells the three engines apart
EngineTag(alg) ==
  CASE alg = "md5" -> 5
    [] alg = "sha1" -> 1
    [] alg = "sha256" -> 2

\* MD5_Init / SHA1_Init / SHA256_Init: nothing fed yet
Digest_Init == <<>>

\* MD5_Update / SHA1_Update / SHA256_Update: feed bytes
Digest_Update(ctx, bytes) == ctx \o bytes

\* MD5_Final / SHA1_Final / SHA256_Final: the binary digest
Digest_Final(alg, ctx) == <<EngineTag(alg)>> \o ctx

RECURSIVE digest_to_ascii(_)
digest_to_ascii(digest) ==
  IF digest = <<>> THEN <<>>
  ELSE <<HexDigits[(Head(digest) \div 16) + 1],
         HexDigits[(Head(digest) % 16) + 1]>> \o digest_to_ascii(Tail(digest))

yr_min(x, y) == IF x < y THEN x ELSE y

(***************************************************************************)
(* The cache (CACHED_HASH, CACHED_CHECKSUM, CACHE).                        *)
(*                                                                         *)
(* CACHED_HASH.digest is a char*: it is modelled as the region the pointer *)
(* refers to and the characters that were there when it was stored.        *)
(***************************************************************************)
NULL_CACHE == "NULL"

\* what a read of memory the program no longer (or never) owned may yield
Junk == <<"?">>
JunkSum == Word32(0, 7)
JunkRange == <<0, 1>>

CACHED_HASH(isSet, offset, length, digest) ==
  [isSet |-> isSet, offset |-> offset, length |-> length, digest |-> digest]

CACHED_CHECKSUM(isSet, offset, length, sum) ==
  [isSet |-> isSet, offset |-> offset, length |-> length, sum |-> sum]

\* a pointer to the digest_ascii array of a function's frame
StackPtr(chars) == [region |-> "stack", chars |-> chars]
WildPtr == [region |-> "wild", chars |-> Junk]
NullPtr == [region |-> "null", chars |-> <<>>]

\* return_string(cached->digest): the characters found behind the pointer.
\* A frame that has returned may have been overwritten since.
ReadString(ptr) ==
  IF ptr.region = "stack" THEN {ptr.chars, Junk} ELSE {Junk}

\* yr_malloc(sizeof(CACHE)) does not clear the memory it returns: it is
\* either zero (a fresh page) or whatever the heap held before.
CACHE ==
  {[md5 |-> CACHED_HASH(FALSE, 0, 0, NullPtr),
    sha1 |-> CACHED_HASH(FALSE, 0, 0, NullPtr),
    sha256 |-> CACHED_HASH(FALSE, 0, 0, NullPtr),
    crc32 |-> CACHED_CHECKSUM(FALSE, 0, 0, Zero32)],
   [md5 |-> CACHED_HASH(TRUE, JunkRange[1], JunkRange[2], WildPtr),
    sha1 |-> CACHED_HASH(TRUE, JunkRange[1], JunkRange[2], WildPtr),
    sha256 |-> CACHED_HASH(TRUE, JunkRange[1], JunkRange[2], WildPtr),
    crc32 |-> CACHED_CHECKSUM(TRUE, JunkRange[1], JunkRange[2], JunkSum)]}

(***************************************************************************)
(* Pieces shared by the four data-range functions (the source repeats the  *)
(* same text in data_md5, data_sha1, data_sha256 and data_checksum32).     *)
(***************************************************************************)
Offsets == (-1)..(MaxAddr - 1)
Lengths == (-1)..MaxLength

\* the argument check without the comparison against the first block's base
WrongArguments_NoBase(offset, length) ==
  offset < 0 \/ length < 0

\* if (offset < 0 || length < 0 || offset < context->mem_block->base)
WrongArguments(offset, length) ==
  offset < 0 \/ length < 0 \/ offset < blocks[1].base

\* the cache test with the stored offset compared to the requested length
CacheHit_OffsetTwice(cached, offset, length) ==
  cached.isSet /\ cached.offset = offset /\ cached.offset = length

\* if (cached->isSet && cached->offset == offset && cached->length == length)
CacheHit(cached, offset, length) ==
  cached.isSet /\ cached.offset = offset /\ cached.length = length

\* checksum += byte, in uint32_t
RECURSIVE checksum_add(_, _)
checksum_add(checksum, bytes) ==
  IF bytes = <<>> THEN checksum
  ELSE LET lo == checksum.lo + Head(bytes)
           hi == checksum.hi + (lo \div Half)
       IN checksum_add(Word32(hi % Half, lo % Half), Tail(bytes))

\* the locals of a data-range function when the loop over the blocks starts
StartScan(offset, length) ==
  [offset |-> offset, length |-> length,
   ctx |-> Digest_Init, checksum |-> Zero32,
   past_first_block |-> FALSE, undefined |-> FALSE,
   fed |-> 0, visited |-> 0, spans |-> <<>>, trail |-> <<>>]

\* the first branch without its "length -= data_len"
ConsumeBlock_KeepLength(alg, i, st) ==
  LET block == blocks[i]
      data_offset == st.offset - block.base
      data_len == yr_min(st.length, block.size - data_offset)
      bytes == SubSeq(block.data, data_offset + 1, data_offset + data_len)
  IN [st EXCEPT
        !.offset = @ + data_len,
        !.ctx = IF alg = "crc32" THEN @ ELSE Digest_Update(@, bytes),
        !.checksum = IF alg = "crc32" THEN checksum_add(@, bytes) ELSE @,
        !.fed = @ + Len(bytes),
        !.past_first_block = TRUE,
        !.spans = Append(@, [block |-> i, length |-> st.length,
                             data_offset |-> data_offset,
                             data_len |-> data_len])]

\* the body of the first branch: the part of the range held by this block
\* (fed counts the bytes handed to the digest or added to the checksum)
ConsumeBlock(alg, i, st) ==
  LET block == blocks[i]
      data_offset == st.offset - block.base
      data_len == yr_min(st.length, block.size - data_offset)
      bytes == SubSeq(block.data, data_offset + 1, data_offset + data_len)
  IN [st EXCEPT
        !.offset = @ + data_len,
        !.length = @ - data_len,
        !.ctx = IF alg = "crc32" THEN @ ELSE Digest_Update(@, bytes),
        !.checksum = IF alg = "crc32" THEN checksum_add(@, bytes) ELSE @,
        !.fed = @ + Len(bytes),
        !.past_first_block = TRUE,
        !.spans = Append(@, [block |-> i, length |-> st.length,
                             data_offset |-> data_offset,
                             data_len |-> data_len])]

\* if (block->base + block->size > offset + length) break;
BreakLoop(block, st) ==
  block.base + block.size > st.offset + st.length

\* the loop with a first branch taken for every block that starts at or
\* before offset (no "offset < block->base + block->size")
RECURSIVE ScanBlocks_NoUpper(_, _, _)
ScanBlocks_NoUpper(alg, i, st) ==
  IF i > Len(blocks) THEN st
  ELSE
    LET block == blocks[i]
        seen == [st EXCEPT !.visited = @ + 1,
                           !.trail = Append(@, [block |-> i,
                                                offset |-> st.offset,
                                                length |-> st.length,
                                                fed |-> st.fed])]
    IN IF seen.offset >= block.base
       THEN LET st1 == ConsumeBlock(alg, i, seen)
            IN IF BreakLoop(block, st1) THEN st1
               ELSE ScanBlocks_NoUpper(alg, i + 1, st1)
       ELSE IF seen.past_first_block
       THEN [seen EXCEPT !.undefined = TRUE]
       ELSE IF BreakLoop(block, seen) THEN seen
            ELSE ScanBlocks_NoUpper(alg, i + 1, seen)

\* foreach_memory_block(context, block) { ... } from block i on; trail keeps
\* the locals as each iteration finds them
RECURSIVE ScanBlocks(_, _, _)
ScanBlocks(alg, i, st) ==
  IF i > Len(blocks) THEN st
  ELSE
    LET block == blocks[i]
        seen == [st EXCEPT !.visited = @ + 1,
                           !.trail = Append(@, [block |-> i,
                                                offset |-> st.offset,
                                                length |-> st.length,
                                                fed |-> st.fed])]
    IN IF seen.offset >= block.base /\ seen.offset < block.base + block.size
       THEN LET st1 == ConsumeBlock(alg, i, seen)
            IN IF BreakLoop(block, st1) THEN st1
               ELSE ScanBlocks(alg, i + 1, st1)
       ELSE IF seen.past_first_block
       THEN [seen EXCEPT !.undefined = TRUE]
       ELSE IF BreakLoop(block, seen) THEN seen
            ELSE ScanBlocks(alg, i + 1, seen)

\* what a call did: the function, its arguments, what it returned
\* (ret: the function's return code; kind: what it handed to the rule
\* evaluator) and what it touched on the way
NoScan ==
  [visited |-> 0, spans |-> <<>>, trail |-> <<>>,
   offset |-> 0, length |-> 0, fed |-> 0]

Returned(fn, offset, length, ret, kind, str, int, hit, st) ==
  [fn |-> fn, offset |-> offset, length |-> length,
   ret |-> ret, kind |-> kind, str |-> str, int |-> int,
   hit |-> hit, visited |-> st.visited, spans |-> st.spans,
   trail |-> st.trail, end_offset |-> st.offset, end_length |-> st.length,
   fed |-> st.fed, arg |-> <<>>]

NoCall ==
  Returned("none", 0, 0, "ERROR_SUCCESS", "none", <<>>, Zero32, FALSE, NoScan)

\* the calls the model explores in one scan
MayCall(fn) ==
  /\ loaded
  /\ ncalls < (IF fns \subseteq {fn} THEN MaxCalls ELSE MaxMixedCalls)

Called(fn) ==
  /\ ncalls' = ncalls + 1
  /\ fns' = fns \cup {fn}
  /\ UNCHANGED <<blocks, loaded>>

Init ==
  /\ blocks \in BlockLists
  /\ loaded = FALSE
  /\ cache = NULL_CACHE
  /\ last = NoCall
  /\ ncalls = 0
  /\ fns = {}

\* module_load: module_object->data = yr_malloc(sizeof(CACHE))
module_load ==
  /\ ~loaded
  /\ loaded' = TRUE
  /\ cache' \in CACHE
  /\ UNCHANGED <<blocks, last, ncalls, fns>>

\* module_unload: yr_free(module_object->data); the scan is over
module_unload ==
  /\ loaded
  /\ loaded' = FALSE
  /\ cache' = NULL_CACHE
  /\ last' = NoCall
  /\ ncalls' = 0
  /\ fns' = {}
  /\ UNCHANGED blocks

\* the literal strings tried: SIZED_STRINGs of plain chars, here a char of
\* the low half ('a') and one with the top bit set (0xFF, -1 as signed char)
StrChars == {97, -1}
SizedStrings == UNION {[1..n -> StrChars] : n \in 0..MaxStrLen}

\* (uint8_t) c
uint8_t(c) == c % 256

\* the bytes of s->c_string[0 .. s->length - 1] as the digest engines and
\* the checksum loop read them
StringBytes(s) == [i \in 1..Len(s) |-> uint8_t(s[i])]

\* string_md5 that looks into the md5 entry of the cache before hashing
string_md5_ViaCache ==
  /\ MayCall("string_md5")
  /\ Called("string_md5")
  /\ \E s \in SizedStrings :
       LET digest_ascii == digest_to_ascii(
                             Digest_Final("md5",
                               Digest_Update(Digest_Init, StringBytes(s))))
       IN IF cache.md5.isSet
          THEN /\ \E chars \in ReadString(cache.md5.digest) :
                    last' = [Returned("string_md5", 0, 0, "ERROR_SUCCESS",
                                      "string", chars, Zero32, FALSE, NoScan)
                               EXCEPT !.arg = s]
               /\ UNCHANGED cache
          ELSE /\ last' = [Returned("string_md5", 0, 0, "ERROR_SUCCESS",
                                    "string", digest_ascii, Zero32, FALSE,
                                    NoScan)
                             EXCEPT !.arg = s]
               /\ cache' = [cache EXCEPT !.md5.isSet = TRUE,
                                         !.md5.digest = StackPtr(digest_ascii)]

string_md5 ==
  /\ MayCall("string_md5")
  /\ Called("string_md5")
  /\ \E s \in SizedStrings :
       LET digest_ascii == digest_to_ascii(
                             Digest_Final("md5",
                               Digest_Update(Digest_Init, StringBytes(s))))
       IN last' = [Returned("string_md5", 0, 0, "ERROR_SUCCESS", "string",
                            digest_ascii, Zero32, FALSE, NoScan)
                     EXCEPT !.arg = s]
  /\ UNCHANGED cache

string_sha256 ==
  /\ MayCall("string_sha256")
  /\ Called("string_sha256")
  /\ \E s \in SizedStrings :
       LET digest_ascii == digest_to_ascii(
                             Digest_Final("sha256",
                               Digest_Update(Digest_Init, StringBytes(s))))
       IN last' = [Returned("string_sha256", 0, 0, "ERROR_SUCCESS", "string",
                            digest_ascii, Zero32, FALSE, NoScan)
                     EXCEPT !.arg = s]
  /\ UNCHANGED cache

string_sha1 ==
  /\ MayCall("string_sha1")
  /\ Called("string_sha1")
  /\ \E s \in SizedStrings :
       LET digest_ascii == digest_to_ascii(
                             Digest_Final("sha1",
                               Digest_Update(Digest_Init, StringBytes(s))))
       IN last' = [Returned("string_sha1", 0, 0, "ERROR_SUCCESS", "string",
                            digest_ascii, Zero32, FALSE, NoScan)
                     EXCEPT !.arg = s]
  /\ UNCHANGED cache

string_checksum32 ==
  /\ MayCall("string_checksum32")
  /\ Called("string_checksum32")
  /\ \E s \in SizedStrings :
       LET checksum == checksum_add(Zero32, StringBytes(s))
       IN last' = [Returned("string_checksum32", 0, 0, "ERROR_SUCCESS",
                            "integer", <<>>, checksum, FALSE, NoScan)
                     EXCEPT !.arg = s]
  /\ UNCHANGED cache

data_md5 ==
  /\ MayCall("data_md5")
  /\ Called("data_md5")
  /\ \E offset \in Offsets, length \in Lengths :
       IF WrongArguments(offset, length)
       THEN /\ last' = Returned("data_md5", offset, length,
                         "ERROR_WRONG_ARGUMENTS", "none", <<>>, Zero32, FALSE, NoScan)
            /\ UNCHANGED cache
       ELSE IF CacheHit(cache.md5, offset, length)
       THEN /\ \E chars \in ReadString(cache.md5.digest) :
                 last' = Returned("data_md5", offset, length,
                           "ERROR_SUCCESS", "string", chars, Zero32, TRUE, NoScan)
            /\ UNCHANGED cache
       ELSE LET probed == [cache.md5 EXCEPT !.offset = offset, !.length = length]
                st == ScanBlocks("md5", 1, StartScan(offset, length))
                digest_ascii == digest_to_ascii(Digest_Final("md5", st.ctx))
            IN IF st.undefined \/ ~st.past_first_block
               THEN /\ last' = Returned("data_md5", offset, length,
                                 "ERROR_SUCCESS", "undefined", <<>>, Zero32, FALSE, st)
                    /\ cache' = [cache EXCEPT !.md5 = probed]
               ELSE /\ last' = Returned("data_md5", offset, length,
                                 "ERROR_SUCCESS", "string", digest_ascii, Zero32, FALSE, st)
                    /\ cache' = [cache EXCEPT !.md5 =
                                   [probed EXCEPT !.isSet = TRUE,
                                                  !.digest = StackPtr(digest_ascii)]]

data_sha1 ==
  /\ MayCall("data_sha1")
  /\ Called("data_sha1")
  /\ \E offset \in Offsets, length \in Lengths :
       IF WrongArguments(offset, length)
       THEN /\ last' = Returned("data_sha1", offset, length,
                         "ERROR_WRONG_ARGUMENTS", "none", <<>>, Zero32, FALSE, NoScan)
            /\ UNCHANGED cache
       ELSE IF CacheHit(cache.sha1, offset, length)
       THEN /\ \E chars \in ReadString(cache.sha1.digest) :
                 last' = Returned("data_sha1", offset, length,
                           "ERROR_SUCCESS", "string", chars, Zero32, TRUE, NoScan)
            /\ UNCHANGED cache
       ELSE LET probed == [cache.sha1 EXCEPT !.offset = offset, !.length = length]
                st == ScanBlocks("sha1", 1, StartScan(offset, length))
                digest_ascii == digest_to_ascii(Digest_Final("sha1", st.ctx))
            IN IF st.undefined \/ ~st.past_first_block
               THEN /\ last' = Returned("data_sha1", offset, length,
                                 "ERROR_SUCCESS", "undefined", <<>>, Zero32, FALSE, st)
                    /\ cache' = [cache EXCEPT !.sha1 = probed]
               ELSE /\ last' = Returned("data_sha1", offset, length,
                                 "ERROR_SUCCESS", "string", digest_ascii, Zero32, FALSE, st)
                    /\ cache' = [cache EXCEPT !.sha1 =
                                   [probed EXCEPT !.isSet = TRUE,
                                                  !.digest = StackPtr(digest_ascii)]]

\* data_sha256 with its entry pointer taken from the md5 slot (&cache->md5)
data_sha256_Md5Slot ==
  /\ MayCall("data_sha256")
  /\ Called("data_sha256")
  /\ \E offset \in Offsets, length \in Lengths :
       IF WrongArguments(offset, length)
       THEN /\ last' = Returned("data_sha256", offset, length,
                         "ERROR_WRONG_ARGUMENTS", "none", <<>>, Zero32, FALSE, NoScan)
            /\ UNCHANGED cache
       ELSE IF CacheHit(cache.md5, offset, length)
       THEN /\ \E chars \in ReadString(cache.md5.digest) :
                 last' = Returned("data_sha256", offset, length,
                           "ERROR_SUCCESS", "string", chars, Zero32, TRUE, NoScan)
            /\ UNCHANGED cache
       ELSE LET probed == [cache.md5 EXCEPT !.offset = offset, !.length = length]
                st == ScanBlocks("sha256", 1, StartScan(offset, length))
                digest_ascii == digest_to_ascii(Digest_Final("sha256", st.ctx))
            IN IF st.undefined \/ ~st.past_first_block
               THEN /\ last' = Returned("data_sha256", offset, length,
                                 "ERROR_SUCCESS", "undefined", <<>>, Zero32, FALSE, st)
                    /\ cache' = [cache EXCEPT !.md5 = probed]
               ELSE /\ last' = Returned("data_sha256", offset, length,
                                 "ERROR_SUCCESS", "string", digest_ascii, Zero32, FALSE, st)
                    /\ cache' = [cache EXCEPT !.md5 =
                                   [probed EXCEPT !.isSet = TRUE,
                                                  !.digest = StackPtr(digest_ascii)]]

data_sha256 ==
  /\ MayCall("data_sha256")
  /\ Called("data_sha256")
  /\ \E offset \in Offsets, length \in Lengths :
       IF WrongArguments(offset, length)
       THEN /\ last' = Returned("data_sha256", offset, length,
                         "ERROR_WRONG_ARGUMENTS", "none", <<>>, Zero32, FALSE, NoScan)
            /\ UNCHANGED cache
       ELSE IF CacheHit(cache.sha256, offset, length)
       THEN /\ \E chars \in ReadString(cache.sha256.digest) :
                 last' = Returned("data_sha256", offset, length,
                           "ERROR_SUCCESS", "string", chars, Zero32, TRUE, NoScan)
            /\ UNCHANGED cache
       ELSE LET probed == [cache.sha256 EXCEPT !.offset = offset, !.length = length]
                st == ScanBlocks("sha256", 1, StartScan(offset, length))
                digest_ascii == digest_to_ascii(Digest_Final("sha256", st.ctx))
            IN IF st.undefined \/ ~st.past_first_block
               THEN /\ last' = Returned("data_sha256", offset, length,
                                 "ERROR_SUCCESS", "undefined", <<>>, Zero32, FALSE, st)
                    /\ cache' = [cache EXCEPT !.sha256 = probed]
               ELSE /\ last' = Returned("data_sha256", offset, length,
                                 "ERROR_SUCCESS", "string", digest_ascii, Zero32, FALSE, st)
                    /\ cache' = [cache EXCEPT !.sha256 =
                                   [probed EXCEPT !.isSet = TRUE,
                                                  !.digest = StackPtr(digest_ascii)]]

data_checksum32 ==
  /\ MayCall("data_checksum32")
  /\ Called("data_checksum32")
  /\ \E offset \in Offsets, length \in Lengths :
       IF WrongArguments(offset, length)
       THEN /\ last' = Returned("data_checksum32", offset, length,
                         "ERROR_WRONG_ARGUMENTS", "none", <<>>, Zero32, FALSE, NoScan)
            /\ UNCHANGED cache
       ELSE IF CacheHit(cache.crc32, offset, length)
       THEN /\ last' = Returned("data_checksum32", offset, length,
                         "ERROR_SUCCESS", "integer", <<>>, cache.crc32.sum, TRUE, NoScan)
            /\ UNCHANGED cache
       ELSE LET probed == [cache.crc32 EXCEPT !.offset = offset, !.length = length]
                st == ScanBlocks("crc32", 1, StartScan(offset, length))
            IN IF st.undefined \/ ~st.past_first_block
               THEN /\ last' = Returned("data_checksum32", offset, length,
                                 "ERROR_SUCCESS", "undefined", <<>>, Zero32, FALSE, st)
                    /\ cache' = [cache EXCEPT !.crc32 = probed]
               ELSE /\ last' = Returned("data_checksum32", offset, length,
                                 "ERROR_SUCCESS", "integer", <<>>, st.checksum, FALSE, st)
                    /\ cache' = [cache EXCEPT !.crc32 =
                                   [probed EXCEPT !.isSet = TRUE,
                                                  !.sum = st.checksum]]

Next ==
  \/ module_load
  \/ module_unload
  \/ data_md5
  \/ data_sha1
  \/ data_sha256
  \/ data_checksum32
  \/ string_md5
  \/ string_sha256
  \/ string_sha1
  \/ string_checksum32

Spec == Init /\ [][Next]_vars

(***************************************************************************)
(* The runs in which the two reads of memory the module does not own turn  *)
(* out harmless: yr_malloc hands out zeroed memory and the frame behind a  *)
(* cached digest pointer still holds the characters written to it.  Every  *)
(* such run is a run of the code, so a property that fails here fails      *)
(* even when those two reads do no harm.                                   *)
(***************************************************************************)
BenignStep ==
  /\ last'.str # Junk
  /\ loaded' => cache'.md5.digest.region # "wild"

NextBenign ==
  \/ module_load /\ BenignStep
  \/ module_unload /\ BenignStep
  \/ data_md5 /\ BenignStep
  \/ data_sha1 /\ BenignStep
  \/ data_sha256 /\ BenignStep
  \/ data_checksum32 /\ BenignStep
  \/ string_md5 /\ BenignStep
  \/ string_sha256 /\ BenignStep
  \/ string_sha1 /\ BenignStep
  \/ string_checksum32 /\ BenignStep

SpecBenign == Init /\ [][NextBenign]_vars

(***************************************************************************)
(* Vocabulary of the properties.                                           *)
(***************************************************************************)
DataFns == {"data_md5", "data_sha1", "data_sha256", "data_checksum32"}

AlgOf(fn) ==
  CASE fn = "data_md5" -> "md5"
    [] fn = "data_sha1" -> "sha1"
    [] fn = "data_sha256" -> "sha256"
    [] fn = "data_checksum32" -> "crc32"

EntryOf(c, fn) ==
  CASE fn = "data_md5" -> c.md5
    [] fn = "data_sha1" -> c.sha1
    [] fn = "data_sha256" -> c.sha256
    [] fn = "data_checksum32" -> c.crc32

\* this step is a call of a module function (last' describes it)
CallStep == ncalls' = ncalls + 1

\* what the call handed back
Outcome(r) == [ret |-> r.ret, kind |-> r.kind, str |-> r.str, int |-> r.int]

Defined(r) == r.ret = "ERROR_SUCCESS" /\ r.kind \in {"string", "integer"}

\* the bytes at logical addresses offset .. offset+length-1
RangeBytes(offset, length) == [k \in 1..length |-> Image(offset + k - 1)]

\* r returned the digest (or the 32-bit byte sum) of bytes
ReturnsDigestOf(r, bytes) ==
  /\ r.ret = "ERROR_SUCCESS"
  /\ IF r.fn = "data_checksum32"
     THEN r.kind = "integer" /\ r.int = checksum_add(Zero32, bytes)
     ELSE r.kind = "string"
          /\ r.str = digest_to_ascii(Digest_Final(AlgOf(r.fn), bytes))

End(block) == block.base + block.size

\* offset lies in block i
StartsIn(i, offset) == blocks[i].base <= offset /\ offset < End(blocks[i])

\* [offset, offset+length) lies inside one block
InsideOneBlock(offset, length) ==
  /\ offset >= 0 /\ length >= 0
  /\ \E i \in 1..Len(blocks) :
       StartsIn(i, offset) /\ offset + length <= End(blocks[i])

\* the range starts in a block, runs past its end, and the next block does
\* not continue where that one ends
SpansGap(offset, length) ==
  /\ offset >= 0 /\ length >= 0
  /\ \E i \in 1..(Len(blocks) - 1) :
       /\ StartsIn(i, offset)
       /\ offset + length > End(blocks[i])
       /\ blocks[i + 1].base > End(blocks[i])

\* blocks i .. j follow one another without a gap
Adjacent(i, j) == \A k \in i..(j - 1) : blocks[k + 1].base = End(blocks[k])

\* the range starts in one block, ends in a later one, and the blocks from
\* the first to the last are adjacent
SpansAdjacent(offset, length) ==
  /\ offset >= 0 /\ length >= 0
  /\ \E i \in 1..Len(blocks) : \E j \in (i + 1)..Len(blocks) :
       /\ StartsIn(i, offset)
       /\ Adjacent(i, j)
       /\ End(blocks[j - 1]) < offset + length
       /\ offset + length <= End(blocks[j])

\* the range starts at or after the first block and ends after the last one
BeyondLastBlock(offset, length) ==
  /\ offset >= 0 /\ length >= 0 /\ offset >= blocks[1].base
  /\ offset + length > End(blocks[Len(blocks)])

\* the logical addresses the spans of a scan read, in the order read
RECURSIVE SpanAddrs(_)
SpanAddrs(spans) ==
  IF spans = <<>> THEN <<>>
  ELSE LET sp == Head(spans)
       IN [k \in 1..sp.data_len |->
             blocks[sp.block].base + sp.data_offset + k - 1]
          \o SpanAddrs(Tail(spans))

(***************************************************************************)
(* C1: a data-range call that returns undefined leaves the cache entry of  *)
(* its algorithm (isSet, offset, length, result) exactly as it was before  *)
(* the call.                                                               *)
(***************************************************************************)
C1_UndefinedLeavesEntry ==
  [][(CallStep /\ last'.kind = "undefined")
       => EntryOf(cache', last'.fn) = EntryOf(cache, last'.fn)]_vars

(***************************************************************************)
(* C2: a call answered from the cache returns the result that a successful *)
(* computation for exactly the requested (offset, length) produces; never  *)
(* a result computed for another range.                                    *)
(***************************************************************************)
C2_HitReturnsResultOfRequestedRange ==
  (last.fn \in DataFns /\ last.hit)
    => LET st == ScanBlocks(AlgOf(last.fn), 1,
                            StartScan(last.offset, last.length))
       IN /\ st.past_first_block /\ ~st.undefined
          /\ IF last.fn = "data_checksum32"
             THEN last.int = st.checksum
             ELSE last.str = digest_to_ascii(Digest_Final(AlgOf(last.fn), st.ctx))

(***************************************************************************)
(* C3: on an empty cache entry, a request whose range lies inside one      *)
(* block returns the digest (or byte sum) of exactly that slice, never     *)
(* undefined, whatever blocks follow.                                      *)
(***************************************************************************)
C3_InsideOneBlockDigest ==
  [][(/\ CallStep
      /\ last'.fn \in DataFns
      /\ ~EntryOf(cache, last'.fn).isSet
      /\ InsideOneBlock(last'.offset, last'.length))
       => ReturnsDigestOf(last', RangeBytes(last'.offset, last'.length))]_vars

(***************************************************************************)
(* C4: a request whose range extends beyond the end of the last block      *)
(* returns undefined, not a digest of the covered prefix.                  *)
(***************************************************************************)
C4_BeyondLastBlockUndefined ==
  (last.fn \in DataFns /\ BeyondLastBlock(last.offset, last.length))
    => (last.ret = "ERROR_SUCCESS" /\ last.kind = "undefined")

(***************************************************************************)
(* C5: a request whose range starts inside a block and runs past its end   *)
(* while the next block starts later (a gap inside the range) returns      *)
(* undefined, for all four functions.                                      *)
(***************************************************************************)
C5_SpansGapUndefined ==
  (last.fn \in DataFns /\ SpansGap(last.offset, last.length))
    => (last.ret = "ERROR_SUCCESS" /\ last.kind = "undefined")

(***************************************************************************)
(* C6: a request whose range spans two or more adjacent blocks and is      *)
(* covered by them returns the digest of the bytes of the range in         *)
(* ascending address order; when computed, each byte is fed exactly once.  *)
(***************************************************************************)
C6_SpansAdjacentDigest ==
  (last.fn \in DataFns /\ SpansAdjacent(last.offset, last.length))
    => /\ ReturnsDigestOf(last, RangeBytes(last.offset, last.length))
       /\ ~last.hit =>
            SpanAddrs(last.spans) =
              [k \in 1..last.length |-> last.offset + k - 1]

(***************************************************************************)
(* C7: a data-range call with offset < 0, length < 0 or offset below the   *)
(* base of the first block fails with ERROR_WRONG_ARGUMENTS (no value, not *)
(* undefined, not a cached result), visits no block and leaves all four    *)
(* cache entries unchanged.                                                *)
(***************************************************************************)
C7_WrongArgumentsRejected ==
  [][(/\ CallStep
      /\ last'.fn \in DataFns
      /\ \/ last'.offset < 0
         \/ last'.length < 0
         \/ last'.offset < blocks[1].base)
       => /\ last'.ret = "ERROR_WRONG_ARGUMENTS"
          /\ last'.kind = "none"
          /\ ~last'.hit
          /\ last'.visited = 0
          /\ last'.spans = <<>>
          /\ cache' = cache]_vars

\* a rejected call whose arguments match what the cache entry holds
C7_Witness ==
  /\ last.fn \in DataFns
  /\ last.ret = "ERROR_WRONG_ARGUMENTS"
  /\ last.offset < blocks[1].base
  /\ CacheHit(EntryOf(cache, last.fn), last.offset, last.length)

(***************************************************************************)
(* C8: the same (function, offset, length) request issued twice in a row   *)
(* returns the same outcome both times.                                    *)
(***************************************************************************)
C8_TwiceSameOutcome ==
  [][(/\ CallStep
      /\ last.fn \in DataFns
      /\ last'.fn = last.fn
      /\ last'.offset = last.offset
      /\ last'.length = last.length)
       => Outcome(last') = Outcome(last)]_vars

(***************************************************************************)
(* C9: after a data-range call has returned a defined result, the next     *)
(* call with the same function, offset and length is served from the       *)
(* cache: it visits no block and feeds no byte to the digest.              *)
(***************************************************************************)
C9_RepeatServedFromCache ==
  [][(/\ CallStep
      /\ last.fn \in DataFns
      /\ Defined(last)
      /\ last'.fn = last.fn
      /\ last'.offset = last.offset
      /\ last'.length = last.length)
       => /\ last'.hit
          /\ Defined(last')
          /\ last'.visited = 0
          /\ last'.spans = <<>>]_vars

\* a hit on an entry that an earlier call of this scan stored
C9_Witness ==
  /\ last.fn = "data_md5"
  /\ last.hit
  /\ ncalls >= 2
  /\ cache.md5.digest.region = "stack"
  /\ last.visited = 0

(***************************************************************************)
(* C10: right after module_load every cache entry is empty (isSet is       *)
(* false), so the first request of each function is a cache miss.          *)
(***************************************************************************)
C10_LoadGivesEmptyCache ==
  (loaded /\ ncalls = 0)
    => /\ ~cache.md5.isSet
       /\ ~cache.sha1.isSet
       /\ ~cache.sha256.isSet
       /\ ~cache.crc32.isSet


HashFns == {"data_md5", "data_sha1", "data_sha256"}

(***************************************************************************)
(* C11: the result held in a cache entry is a copy owned by the cache: it  *)
(* never refers to the digest_ascii array of the call that stored it, and  *)
(* a later hit returns exactly the characters that were stored.            *)
(***************************************************************************)
C11_CachedResultOwned ==
  loaded =>
    \A fn \in HashFns :
      /\ EntryOf(cache, fn).digest.region # "stack"
      /\ (last.fn = fn /\ last.hit)
           => last.str = EntryOf(cache, fn).digest.chars


(***************************************************************************)
(* C12: a data-range call of one function leaves the cache entries of the  *)
(* other three functions unchanged, and its outcome is decided by its own  *)
(* entry, its arguments and the blocks alone: whether it is a hit, what a  *)
(* hit returns and what a miss computes do not depend on the other slots.  *)
(***************************************************************************)
C12_OtherEntriesIsolated ==
  [][(CallStep /\ last'.fn \in DataFns)
       => LET fn == last'.fn
              own == EntryOf(cache, fn)
              st == ScanBlocks(AlgOf(fn), 1,
                               StartScan(last'.offset, last'.length))
          IN /\ \A g \in DataFns \ {fn} :
                  EntryOf(cache', g) = EntryOf(cache, g)
             /\ last'.ret = "ERROR_SUCCESS" =>
                  /\ last'.hit = (/\ own.isSet
                                  /\ own.offset = last'.offset
                                  /\ own.length = last'.length)
                  /\ (last'.hit /\ fn = "data_checksum32")
                       => last'.int = own.sum
                  /\ (last'.hit /\ fn # "data_checksum32")
                       => last'.str \in {own.digest.chars, Junk}
                  /\ (~last'.hit /\ Defined(last'))
                       => /\ last'.int = st.checksum
                          /\ fn # "data_checksum32" =>
                               last'.str = digest_to_ascii(
                                             Digest_Final(AlgOf(fn), st.ctx))
                  /\ ~last'.hit =>
                       (Defined(last') <=>
                          (st.past_first_block /\ ~st.undefined))]_vars

\* sha256 computed for the very range the md5 slot holds a stored result for
C12_Witness ==
  /\ last.fn = "data_sha256"
  /\ ~last.hit
  /\ Defined(last)
  /\ cache.md5.isSet
  /\ cache.md5.digest.region = "stack"
  /\ cache.md5.offset = last.offset
  /\ cache.md5.length = last.length


StringFns == {"string_md5", "string_sha1", "string_sha256",
              "string_checksum32"}

StringAlgOf(fn) ==
  CASE fn = "string_md5" -> "md5"
    [] fn = "string_sha1" -> "sha1"
    [] fn = "string_sha256" -> "sha256"
    [] fn = "string_checksum32" -> "crc32"

\* r returned the digest (or the 32-bit byte sum) of the bytes of its
\* literal-string argument
ReturnsDigestOfArg(r) ==
  /\ r.ret = "ERROR_SUCCESS"
  /\ IF r.fn = "string_checksum32"
     THEN r.kind = "integer"
          /\ r.int = checksum_add(Zero32, StringBytes(r.arg))
     ELSE r.kind = "string"
          /\ r.str = digest_to_ascii(
                       Digest_Final(StringAlgOf(r.fn), StringBytes(r.arg)))

(***************************************************************************)
(* C14: a literal-string call always returns a defined result, the digest  *)
(* (or byte sum) of the supplied bytes and of nothing else; it examines no *)
(* block, takes nothing from any cache entry and leaves all four cache     *)
(* entries and the blocks as they were.                                    *)
(***************************************************************************)
C14_StringFormsPure ==
  [][(CallStep /\ last'.fn \in StringFns)
       => /\ Defined(last')
          /\ ReturnsDigestOfArg(last')
          /\ ~last'.hit
          /\ last'.visited = 0
          /\ cache' = cache
          /\ blocks' = blocks]_vars

\* a literal-string md5 of a non-empty string taken while the md5 entry of
\* the cache holds a stored result
C14_Witness ==
  /\ last.fn = "string_md5"
  /\ last.arg # <<>>
  /\ Defined(last)
  /\ loaded
  /\ cache.md5.isSet
  /\ cache.md5.digest.region = "stack"


\* every address of [offset, offset+length) lies in some block, and so does
\* offset itself when the range is empty
FullyCovered(offset, length) ==
  /\ offset >= 0 /\ length >= 0
  /\ \E i \in 1..Len(blocks) : StartsIn(i, offset)
  /\ \A a \in offset..(offset + length - 1) :
       \E i \in 1..Len(blocks) : StartsIn(i, a)

(***************************************************************************)
(* C13: for every fully covered range the range form of checksum32 returns *)
(* the sum of the bytes of the range modulo 2^32, as an integer and never  *)
(* undefined, on a miss and on a later hit alike; the literal-string form  *)
(* returns the same sum of the bytes of its argument.                      *)
(***************************************************************************)
C13_Checksum32ByteSum ==
  /\ (last.fn = "data_checksum32" /\ FullyCovered(last.offset, last.length))
       => ReturnsDigestOf(last, RangeBytes(last.offset, last.length))
  /\ last.fn = "string_checksum32" => ReturnsDigestOfArg(last)


\* the index of the first block whose end is at least the end of the range,
\* or 0 when no block reaches that far
FirstReaching(offset, length) ==
  LET reaching == {i \in 1..Len(blocks) : End(blocks[i]) >= offset + length}
  IN IF reaching = {} THEN 0
     ELSE CHOOSE i \in reaching : \A j \in reaching : i <= j

(***************************************************************************)
(* C15: the walk over the blocks stops right after the first block whose   *)
(* end is at least offset+length: no later block is examined, so a block   *)
(* lying wholly after the requested range cannot make the result undefined.*)
(***************************************************************************)
C15_WalkStopsAtRangeEnd ==
  (/\ last.fn \in DataFns
   /\ last.ret = "ERROR_SUCCESS"
   /\ ~last.hit
   /\ FirstReaching(last.offset, last.length) > 0)
    => /\ last.visited <= FirstReaching(last.offset, last.length)
       /\ InsideOneBlock(last.offset, last.length) => Defined(last)


(***************************************************************************)
(* C16: after a data-range call that missed the cache and returned a       *)
(* defined result, the entry of its algorithm is set and holds the offset  *)
(* and length as the caller passed them (not as the walk advanced them)    *)
(* and the result that was returned, whatever the entry held before.       *)
(***************************************************************************)
C16_MissStoresRequest ==
  (/\ loaded
   /\ last.fn \in DataFns
   /\ ~last.hit
   /\ Defined(last))
    => LET entry == EntryOf(cache, last.fn)
       IN /\ entry.isSet
          /\ entry.offset = last.offset
          /\ entry.length = last.length
          /\ IF last.fn = "data_checksum32"
             THEN entry.sum = last.int
             ELSE ReadString(entry.digest) = {last.str}


(***************************************************************************)
(* C17: a valid data-range request whose offset lies in no block returns   *)
(* undefined, for every algorithm and every length, zero included.         *)
(***************************************************************************)
C17_StartOutsideUndefined ==
  (/\ last.fn \in DataFns
   /\ ~WrongArguments(last.offset, last.length)
   /\ \A i \in 1..Len(blocks) : ~StartsIn(i, last.offset))
    => last.ret = "ERROR_SUCCESS" /\ last.kind = "undefined"

\* what the request returns when computed from the blocks alone
UncachedOutcome(fn, offset, length) ==
  LET st == ScanBlocks(AlgOf(fn), 1, StartScan(offset, length))
  IN IF st.undefined \/ ~st.past_first_block
     THEN [ret |-> "ERROR_SUCCESS", kind |-> "undefined",
           str |-> <<>>, int |-> Zero32]
     ELSE IF fn = "data_checksum32"
     THEN [ret |-> "ERROR_SUCCESS", kind |-> "integer",
           str |-> <<>>, int |-> st.checksum]
     ELSE [ret |-> "ERROR_SUCCESS", kind |-> "string",
           str |-> digest_to_ascii(Digest_Final(AlgOf(fn), st.ctx)),
           int |-> Zero32]

(***************************************************************************)
(* C19: the cache is transparent: whatever valid data-range requests came  *)
(* before in the scan, a request returns what the same request returns     *)
(* when computed from the blocks with no cache at all.                     *)
(***************************************************************************)
C19_CacheTransparent ==
  (last.fn \in DataFns /\ ~WrongArguments(last.offset, last.length))
    => Outcome(last) = UncachedOutcome(last.fn, last.offset, last.length)


\* the call walked the blocks: a valid data-range request that missed
Walked(r) ==
  /\ r.fn \in DataFns
  /\ r.ret = "ERROR_SUCCESS"
  /\ ~r.hit

(***************************************************************************)
(* C18: every span a walk reads lies inside the block it is read from:     *)
(* 0 <= data_offset < size and data_offset + data_len <= size, where       *)
(* data_len is the smaller of the remaining length and size - data_offset, *)
(* a difference that is never negative.                                    *)
(***************************************************************************)
C18_SpansInsideBlocks ==
  Walked(last) =>
    \A k \in 1..Len(last.spans) :
      LET sp == last.spans[k]
          size == blocks[sp.block].size
          room == size - sp.data_offset
      IN /\ 0 <= sp.data_offset /\ sp.data_offset < size
         /\ room > 0
         /\ sp.length >= 0
         /\ sp.data_len = (IF sp.length < room THEN sp.length ELSE room)
         /\ sp.data_len >= 0
         /\ sp.data_offset + sp.data_len <= size

\* a range that starts inside a block, is cut at its end and goes on in the
\* next block
C18_Witness ==
  /\ Walked(last)
  /\ Len(last.spans) = 2
  /\ last.spans[1].data_offset > 0
  /\ last.spans[1].data_len < last.spans[1].length
  /\ last.spans[2].data_len > 0

\* offset, length and fed are the values of the locals at one point of the
\* walk of call r
WalkPoint(r, offset, length, fed) ==
  /\ offset + length = r.offset + r.length
  /\ length >= 0
  /\ fed = r.length - length

(***************************************************************************)
(* C20: all along the walk of one data-range call offset + length stays    *)
(* the requested offset + length, length never goes below zero and the     *)
(* number of bytes fed so far is the requested length minus the length     *)
(* left; the blocks are visited one by one in sequence order, each at most *)
(* once, so the walk ends after at most as many visits as there are blocks.*)
(***************************************************************************)
C20_WalkInvariants ==
  Walked(last) =>
    /\ \A k \in 1..Len(last.trail) :
         /\ WalkPoint(last, last.trail[k].offset, last.trail[k].length,
                      last.trail[k].fed)
         /\ last.trail[k].block = k
    /\ WalkPoint(last, last.end_offset, last.end_length, last.fed)
    /\ Len(last.trail) = last.visited
    /\ last.visited <= Len(blocks)
    /\ \A k \in 1..Len(last.spans) : \A j \in 1..(k - 1) :
         last.spans[j].block < last.spans[k].block

\* a walk over three blocks that fed bytes from more than one of them
C20_Witness ==
  /\ Walked(last)
  /\ Len(last.trail) = 3
  /\ Len(last.spans) >= 2
  /\ last.fed >= 2
  /\ last.spans[1].data_len > 0

====
